---- MODULE Spec2Model ----
(***************************************************************************)
(* Model of books_scraper/scraper.py: the book extractor get_book_data,    *)
(* the listing fetcher _fetch_page and the crawl loop scrape_books in its  *)
(* sequential and its thread-pool mode, with the save step.                *)
(*                                                                         *)
(* Text is a sequence of tokens; the token " " is whitespace and the empty *)
(* sequence is the empty string.  An optional element (the result of       *)
(* soup.find, which is None when nothing matches) is a sequence of length  *)
(* at most one.                                                            *)
(***************************************************************************)
EXTENDS Integers, Sequences, FiniteSets, Bags, TLC

VARIABLES
    n_books,      \* number of books in the catalog of the site
    page_size,    \* number of books the site puts on a full listing page
    dir_made,     \* whether the directory of the destination exists
    web,          \* responses of the site: request key -> response, fixed at first request
    pc,           \* position of scrape_books
    is_save,      \* parameters of the running call
    use_threads,
    max_pages,
    page,         \* locals of scrape_books
    all_books,
    book_links,
    idx,          \* position of the sequential for loop
    futures,      \* the futures submitted to the ThreadPoolExecutor
    exc,          \* exception in flight or raised to the caller
    outcome,      \* how the last call ended: "none", "returned", "raised"
    returned,     \* value the caller obtained from the last call
    file,         \* content of the destination file
    requests,     \* listing-page requests of the running call, in order
    calls,        \* get_book_data invocations of the running call, in order
    history,      \* the finished calls, in order
    doc,          \* input of the extractor run on its own
    out           \* result of the extractor run on its own

vars == << n_books, page_size, dir_made, web, pc, is_save, use_threads, max_pages, page, all_books,
           book_links, idx, futures, exc, outcome, returned, file,
           requests, calls, history, doc, out >>

----------------------------------------------------------------------------
(* Bounds *)

MaxLinks == 2       \* books on a full listing page of the crawled site
MaxBooks == 4       \* most books in the catalog
MaxRuns  == 2       \* calls of scrape_books in one behaviour
PoolExtra == 1      \* links of the large listing page beyond the pool's threads
MaxRows  == 2       \* most rows of the attribute table in an extractor input

\* the books of the site in catalog order
Titles == << "A Light in the Attic", "Tipping the Velvet", "Soumission",
             "Sharp Objects", "Sapiens", "The Requiem Red",
             "The Dirty Little Secrets", "The Coming Woman",
             "The Boys in the Boat", "The Black Maria",
             "Starving Hearts", "Shakespeare's Sonnets" >>

Ratings == {"One", "Two", "Three", "Four", "Five"}

----------------------------------------------------------------------------
(* Text *)

RECURSIVE LStrip(_)
LStrip(t) == IF t # << >> /\ Head(t) = " " THEN LStrip(Tail(t)) ELSE t

RECURSIVE RStrip(_)
RStrip(t) ==
    IF t # << >> /\ t[Len(t)] = " " THEN RStrip(SubSeq(t, 1, Len(t) - 1)) ELSE t

\* tag.get_text(strip=True) of an element holding one text node
get_text(t) == RStrip(LStrip(t))

----------------------------------------------------------------------------
(* get_book_data: extraction from a parsed detail page.                    *)
(* A document is a record                                                  *)
(*   product_main : << >> or <<h1>>, h1 being << >> or <<text>>            *)
(*   price_color, instock : << >> or <<text>>                              *)
(*   star_rating : << >> or <<class tokens>>                               *)
(*   product_description : << >> or <<sibling>>, sibling << >> or <<text>> *)
(*   table : << >> or <<rows>>, a row being [th |-> text, td |-> text]     *)

Ok(v)     == [kind |-> "ok", value |-> v]
Raise(e)  == [kind |-> "exc", type |-> e]

\* the dict comprehension of lines 73-76: a later row replaces an earlier
\* one with the same key
RECURSIVE InfoGet(_, _, _)
InfoGet(rows, key, default) ==
    IF rows = << >> THEN default
    ELSE LET r == rows[Len(rows)]
         IN  IF get_text(r.th) = key THEN get_text(r.td)
             ELSE InfoGet(SubSeq(rows, 1, Len(rows) - 1), key, default)

RatingIndexBug(cls) == cls[1]
RatingIndex(cls) == cls[2]

get_book_data_parse(d) ==
    IF d.product_main = << >> \/ d.product_main[1] = << >>
        THEN Raise("AttributeError")                         \* line 57
    ELSE IF d.price_color = << >> THEN Raise("AttributeError")   \* line 58
    ELSE IF d.instock = << >> THEN Raise("AttributeError")       \* lines 59-61
    ELSE IF d.star_rating = << >> THEN Raise("TypeError")        \* line 63
    ELSE IF Len(d.star_rating[1]) < 2 THEN Raise("IndexError")   \* line 63
    ELSE IF d.product_description # << >> /\ d.product_description[1] = << >>
        THEN Raise("AttributeError")                         \* line 67
    ELSE IF d.table = << >> THEN Raise("AttributeError")         \* line 75
    ELSE LET info == d.table[1]
         IN Ok([ title              |-> get_text(d.product_main[1][1]),
                 price              |-> get_text(d.price_color[1]),
                 availability       |-> get_text(d.instock[1]),
                 rating             |-> RatingIndex(d.star_rating[1]),
                 description        |-> IF d.product_description # << >>
                                          THEN get_text(d.product_description[1][1])
                                          ELSE << >>,
                 upc                |-> InfoGet(info, <<"UPC">>, << >>),
                 product_type       |-> InfoGet(info, <<"Product", " ", "Type">>, << >>),
                 price_excl_tax     |-> InfoGet(info, <<"Price", " ", "(excl.", " ", "tax)">>, << >>),
                 price_incl_tax     |-> InfoGet(info, <<"Price", " ", "(incl.", " ", "tax)">>, << >>),
                 tax                |-> InfoGet(info, <<"Tax">>, << >>),
                 availability_count |-> InfoGet(info, <<"Availability">>, << >>),
                 number_of_reviews  |-> InfoGet(info, <<"Number", " ", "of", " ", "reviews">>, << >>) ])

\* a response is [status |-> "err"] (transport error, timeout or non-2xx
\* status, raised by requests.get or raise_for_status) or
\* [status |-> "ok", body |-> document]
ErrResponse == [status |-> "err"]
OkResponse(body) == [status |-> "ok", body |-> body]

get_book_data(resp) ==
    IF resp.status = "err" THEN Raise("RequestException")    \* lines 48-54
    ELSE get_book_data_parse(resp.body)

----------------------------------------------------------------------------
(* Addresses.  An address is [dir |-> path segments, file |-> name,        *)
(* n |-> page number or 0]; a href is relative to the page that holds it.  *)

BASE_INDEX == [dir |-> << >>, file |-> "index.html", n |-> 0]

\* every page, the first included, at a numbered pagination address
page_urlNumbered(p) ==
    IF p > 0 THEN [dir |-> <<"catalogue">>, file |-> "page-n.html", n |-> p]
    ELSE BASE_INDEX

\* lines 124-128
page_url(p) ==
    IF p > 1 THEN [dir |-> <<"catalogue">>, file |-> "page-n.html", n |-> p]
    ELSE BASE_INDEX

\* urllib.parse.urljoin for a relative href without dot segments
urljoin(base, href) ==
    [dir |-> base.dir \o href.dir, file |-> href.file, n |-> href.n]

BookUrl(b) == [dir |-> <<"catalogue", b>>, file |-> "index.html", n |-> 0]

\* the href a listing page at address u carries for book b
HrefFor(u, b) ==
    IF u.dir = << >> THEN [dir |-> <<"catalogue", b>>, file |-> "index.html", n |-> 0]
    ELSE [dir |-> <<b>>, file |-> "index.html", n |-> 0]

\* a listing document: the hrefs of its "h3 > a" anchors, in order, and
\* whether it carries a "next" link
ListingDoc(u, bs, nxt) ==
    [anchors |-> [k \in 1..Len(bs) |-> HrefFor(u, bs[k])], next |-> nxt]

\* the first n books of page p, the pages holding size books each
PageBooks(p, n, size) == [k \in 1..n |-> Titles[(p - 1) * size + k]]

\* _fetch_page, lines 103-106
fetch_page(u, resp) ==
    IF resp.status = "err" THEN Raise("RequestException")
    ELSE Ok([k \in 1..Len(resp.body.anchors) |-> urljoin(u, resp.body.anchors[k])])

----------------------------------------------------------------------------
(* The site *)

\* a detail page as the site serves it for book b
ValidDoc(b) ==
    [ product_main        |-> << << <<" ", b, " ">> >> >>,
      price_color         |-> << <<"£51.77">> >>,
      instock             |-> << <<" ", "In", " ", "stock", " ">> >>,
      star_rating         |-> << <<"star-rating", "Three">> >>,
      product_description |-> << << <<"text">> >> >>,
      table               |-> << << [th |-> <<"UPC">>, td |-> <<b>>],
                                    [th |-> <<"Tax">>, td |-> <<"£0.00">>] >> >> ]

\* the same page without its product_main block
BrokenDoc(b) == [ValidDoc(b) EXCEPT !.product_main = << >>]

DetailResponses(b) ==
    {ErrResponse, OkResponse(ValidDoc(b)), OkResponse(BrokenDoc(b))}

UnknownResponse == [status |-> "unknown"]

Key(u, k) == [url |-> u, k |-> k]

Keys == {Key(page_url(p), k) : p \in 1..(Len(Titles) + 1), k \in 1..2}
            \cup {Key(BookUrl(Titles[j]), 1) : j \in 1..Len(Titles)}

\* the number of books on listing page p: the catalog is cut into pages of
\* page_size books
OnPage(p) ==
    IF n_books >= p * page_size THEN page_size
    ELSE IF n_books > (p - 1) * page_size THEN n_books - (p - 1) * page_size
    ELSE 0

\* responses the site can give to the first request of listing page p: an
\* error, or the page with its books and, when books follow, a "next" link;
\* a page number beyond the catalog answers 404 or with a page without books
ListingResponses(p) ==
    {ErrResponse,
     OkResponse(ListingDoc(page_url(p), PageBooks(p, OnPage(p), page_size),
                           n_books > p * page_size))}

\* responses to the second request of the same page: failed, unchanged,
\* or emptied in between
SecondResponses(p) ==
    {ErrResponse, web[Key(page_url(p), 1)],
     OkResponse(ListingDoc(page_url(p), << >>, FALSE))}

\* the response to request key: the recorded one, or one of cands which is
\* then recorded
Respond(key, cands, r) ==
    /\ IF web[key] = UnknownResponse THEN r \in cands ELSE r = web[key]
    /\ web' = [web EXCEPT ![key] = r]

BookOf(u) == u.dir[2]

----------------------------------------------------------------------------
(* scrape_books *)

max_workers == 8        \* ThreadPoolExecutor(max_workers=8)

NoExc == [type |-> "none", at |-> "none"]

\* a test of max_pages against None only
TruthyNotNone(m) == m # << >>

\* truth value of the optional integer max_pages (<< >> is None)
Truthy(m) == m # << >> /\ m[1] # 0

\* "not book_links", "not next_button"
Falsy(links) == links = << >>

CapReachedOffByOne(m, p) == Truthy(m) /\ p > m[1]

\* line 162
CapReached(m, p) == Truthy(m) /\ p >= m[1]

CaughtNothing(threads, type) == FALSE

CaughtNoNetworkInThread(threads, type) ==
    IF threads THEN type \in {"RuntimeError", "ExceptionGroup"}
    ELSE type = "RequestException"

\* the except clauses around a book extraction: lines 150-153 in the
\* thread-pool loop, line 159 in the sequential loop
Caught(threads, type) ==
    IF threads THEN type \in {"RequestException", "RuntimeError", "ExceptionGroup"}
    ELSE type = "RequestException"

\* str(book) + "\n": the fields in the order the dict was built
Repr(book) ==
    << <<"title", book.title>>, <<"price", book.price>>,
       <<"availability", book.availability>>, <<"rating", <<book.rating>> >>,
       <<"description", book.description>>, <<"upc", book.upc>>,
       <<"product_type", book.product_type>>,
       <<"price_excl_tax", book.price_excl_tax>>,
       <<"price_incl_tax", book.price_incl_tax>>, <<"tax", book.tax>>,
       <<"availability_count", book.availability_count>>,
       <<"number_of_reviews", book.number_of_reviews>>, <<"\n", << >> >> >>

Lines(books) == [k \in 1..Len(books) |-> Repr(books[k])]

\* mode "a" instead of "w"
WriteFileAppend(old, books) ==
    IF old = << >> THEN Lines(books) ELSE old[1] \o Lines(books)

\* open(save_path, "w") followed by the writes of lines 174-175
WriteFile(old, books) == Lines(books)

LogRequest(k, r) ==
    [page |-> page, url |-> page_url(page), k |-> k, status |-> r.status,
     n    |-> IF r.status = "ok" THEN Len(r.body.anchors) ELSE 0,
     next |-> IF r.status = "ok" THEN r.body.next ELSE FALSE]

\* the call ends, with a return value (val = <<all_books>>) or with an
\* exception (val = << >>); its locals go out of scope
EndCall(oc, e, val) ==
    /\ pc' = "idle"
    /\ outcome' = oc
    /\ exc' = e
    /\ returned' = val
    /\ page' = 1 /\ all_books' = << >> /\ book_links' = << >>
    /\ idx' = 1 /\ futures' = << >>
    /\ requests' = << >> /\ calls' = << >>
    /\ history' = Append(history, [is_save |-> is_save, use_threads |-> use_threads,
                                   max_pages |-> max_pages, outcome |-> oc,
                                   exc |-> e.type, value |-> val])

\* lines 109-121.  The first call is sequential, as in the test; a later
\* call crawls the same site in the other mode with the same parameters,
\* where no cap may be given as None or as 0
Call(s, t, m) ==
    /\ pc = "idle"
    /\ Len(history) < MaxRuns
    /\ IF history = << >> THEN t = FALSE
       ELSE /\ s = history[Len(history)].is_save
            /\ \/ m = history[Len(history)].max_pages
               \/ {m, history[Len(history)].max_pages} \subseteq {<< >>, <<0>>}
            /\ t = ~history[Len(history)].use_threads
    /\ is_save' = s /\ use_threads' = t /\ max_pages' = m
    /\ all_books' = << >> /\ page' = 1
    /\ book_links' = << >> /\ idx' = 1 /\ futures' = << >>
    /\ exc' = NoExc /\ outcome' = "none" /\ returned' = << >>
    /\ requests' = << >> /\ calls' = << >>
    /\ pc' = "fetch"
    /\ UNCHANGED << web, file, history, doc, out, n_books, page_size, dir_made >>

\* where the loop goes after the listing fetch, lines 129-140: an empty
\* page falls through the extraction loop to line 162
AfterFetchNoEmptyCheck(res, threads) ==
    IF res.kind = "exc" THEN "save"
    ELSE IF Falsy(res.value) THEN "cap"
    ELSE IF threads THEN "submit" ELSE "seq"

\* where the loop goes after the listing fetch, lines 129-140
AfterFetch(res, threads) ==
    IF res.kind = "exc" \/ Falsy(res.value) THEN "save"
    ELSE IF threads THEN "submit" ELSE "seq"

\* lines 124-138
FetchListing ==
    /\ pc = "fetch"
    /\ \E r \in ListingResponses(page) \cup {web[Key(page_url(page), 1)]} :
        /\ Respond(Key(page_url(page), 1), ListingResponses(page), r)
        /\ requests' = Append(requests, LogRequest(1, r))
        /\ LET res == fetch_page(page_url(page), r)
           IN /\ pc' = AfterFetch(res, use_threads)
              /\ IF res.kind = "exc"
                   THEN UNCHANGED << book_links, idx >>
                   ELSE book_links' = res.value /\ idx' = 1
    /\ UNCHANGED << is_save, use_threads, max_pages, page, all_books, futures,
                    exc, outcome, returned, file, calls, history, doc, out, n_books, page_size, dir_made >>

\* an append that overwrites the record appended last
CollectedLost(books, res) ==
    IF res.kind # "ok" THEN books
    ELSE IF books = << >> THEN <<res.value>>
    ELSE [books EXCEPT ![Len(books)] = res.value]

\* a record put in front of the collection
CollectedInFront(books, res) ==
    IF res.kind = "ok" THEN <<res.value>> \o books ELSE books

\* all_books.append(...) of lines 149 and 157: the record goes to the end
\* of the collection; a failed book leaves the collection as it is
Collected(books, res) ==
    IF res.kind = "ok" THEN Append(books, res.value) ELSE books

\* one iteration of the sequential loop, lines 155-160
SeqBook ==
    /\ pc = "seq"
    /\ LET link == book_links[idx]
           key  == Key(link, 1)
       IN \E r \in DetailResponses(BookOf(link)) \cup {web[key]} :
            /\ Respond(key, DetailResponses(BookOf(link)), r)
            /\ LET res == get_book_data(r)
               IN IF res.kind = "ok" \/ Caught(FALSE, res.type)
                    THEN /\ all_books' = Collected(all_books, res)
                         /\ idx' = idx + 1
                         /\ pc' = IF idx = Len(book_links) THEN "cap" ELSE "seq"
                         /\ calls' = Append(calls, [page |-> page, i |-> idx, link |-> link])
                         /\ UNCHANGED << page, book_links, futures, requests,
                                         exc, outcome, returned, history >>
                    ELSE EndCall("raised", [type |-> res.type, at |-> "get_book_data"], << >>)
    /\ UNCHANGED << is_save, use_threads, max_pages, file, doc, out, n_books, page_size, dir_made >>

Running == {k \in DOMAIN futures : futures[k].state = "running"}
Pending == {k \in DOMAIN futures : futures[k].state = "pending"}

\* a pool that starts a thread for every submitted work item
StartedAtSubmitUnbounded(n) == n

\* ThreadPoolExecutor(max_workers=8), line 141: of n submitted work items
\* the pool starts a thread for each as long as fewer than max_workers
\* threads exist
StartedAtSubmit(n) == IF n <= max_workers THEN n ELSE max_workers

\* lines 141-145: every link is submitted; the work items beyond the
\* threads of the pool wait in the queue
Submit ==
    /\ pc = "submit"
    /\ futures' = [k \in 1..Len(book_links) |->
                     [link |-> book_links[k],
                      state |-> IF k <= StartedAtSubmit(Len(book_links))
                                  THEN "running" ELSE "pending",
                      result |-> [kind |-> "none"]]]
    /\ calls' = calls \o [k \in 1..StartedAtSubmit(Len(book_links)) |->
                            [page |-> page, i |-> k, link |-> book_links[k]]]
    /\ pc' = "collect"
    /\ UNCHANGED << web, is_save, use_threads, max_pages, page, all_books,
                    book_links, idx, exc, outcome, returned, file, requests,
                    history, doc, out, n_books, page_size, dir_made >>

\* get_book_data(link) ends in a pool thread, which sets the future's
\* result and takes the oldest queued work item, if any
WorkerFinish(k) ==
    /\ pc \in {"collect", "shutdown"}
    /\ futures[k].state = "running"
    /\ LET link == futures[k].link
           key  == Key(link, 1)
       IN \E r \in DetailResponses(BookOf(link)) \cup {web[key]} :
            /\ Respond(key, DetailResponses(BookOf(link)), r)
            /\ IF Pending = {}
                 THEN /\ futures' = [futures EXCEPT ![k].state = "finished",
                                                    ![k].result = get_book_data(r)]
                      /\ UNCHANGED calls
                 ELSE LET n == CHOOSE j \in Pending : \A l \in Pending : j <= l
                      IN /\ futures' = [futures EXCEPT ![k].state = "finished",
                                                       ![k].result = get_book_data(r),
                                                       ![n].state = "running"]
                         /\ calls' = Append(calls, [page |-> page, i |-> n,
                                                    link |-> futures[n].link])
    /\ UNCHANGED << pc, is_save, use_threads, max_pages, page, all_books,
                    book_links, idx, exc, outcome, returned, file, requests,
                    history, doc, out, n_books, page_size, dir_made >>

\* one iteration of "for f in as_completed(futures)", lines 147-153
Consume(k) ==
    /\ pc = "collect"
    /\ futures[k].state = "finished"
    /\ futures' = [futures EXCEPT ![k].state = "consumed"]
    /\ LET res == futures[k].result
       IN IF res.kind = "ok" \/ Caught(TRUE, res.type)
            THEN /\ all_books' = Collected(all_books, res)
                 /\ UNCHANGED << pc, exc >>
            ELSE /\ pc' = "shutdown"
                 /\ exc' = [type |-> res.type, at |-> "get_book_data"]
                 /\ UNCHANGED all_books
    /\ UNCHANGED << web, is_save, use_threads, max_pages, page, book_links, idx,
                    outcome, returned, file, requests, calls, history, doc, out, n_books, page_size, dir_made >>

\* the loop over the futures is left without waiting for them
ExitPoolNoWait ==
    /\ pc = "collect"
    /\ pc' = "cap"
    /\ UNCHANGED << web, is_save, use_threads, max_pages, page, all_books,
                    book_links, idx, futures, exc, outcome, returned, file,
                    requests, calls, history, doc, out, n_books, page_size, dir_made >>

\* the with block of line 141 is left: every future was consumed
ExitPool ==
    /\ pc = "collect"
    /\ \A k \in DOMAIN futures : futures[k].state = "consumed"
    /\ pc' = "cap"
    /\ UNCHANGED << web, is_save, use_threads, max_pages, page, all_books,
                    book_links, idx, futures, exc, outcome, returned, file,
                    requests, calls, history, doc, out, n_books, page_size, dir_made >>

\* the with block is left by an exception: shutdown(wait=True) waits for
\* the queued and running work items, then the exception goes on
ExitPoolRaise ==
    /\ pc = "shutdown"
    /\ Pending = {} /\ Running = {}
    /\ EndCall("raised", exc, << >>)
    /\ UNCHANGED << web, is_save, use_threads, max_pages, file, doc, out, n_books, page_size, dir_made >>

\* lines 162-163
CheckCap ==
    /\ pc = "cap"
    /\ pc' = IF CapReached(max_pages, page) THEN "save" ELSE "next"
    /\ UNCHANGED << web, is_save, use_threads, max_pages, page, all_books,
                    book_links, idx, futures, exc, outcome, returned, file,
                    requests, calls, history, doc, out, n_books, page_size, dir_made >>

\* lines 165-168
NextCheck ==
    /\ pc = "next"
    /\ \E r \in SecondResponses(page) \cup {web[Key(page_url(page), 2)]} :
        /\ Respond(Key(page_url(page), 2), SecondResponses(page), r)
        /\ LET res == fetch_page(page_url(page), r)
           IN IF res.kind = "exc"
                THEN EndCall("raised", [type |-> res.type, at |-> "next_button"], << >>)
                ELSE /\ IF Falsy(res.value)
                          THEN pc' = "save" /\ page' = page
                          ELSE pc' = "fetch" /\ page' = page + 1
                     /\ requests' = Append(requests, LogRequest(2, r))
                     /\ UNCHANGED << all_books, book_links, idx, futures, calls,
                                     exc, outcome, returned, history >>
    /\ UNCHANGED << is_save, use_threads, max_pages, file, doc, out, n_books, page_size, dir_made >>

\* a return that writes the file although is_save is false
ReturnOnlySaves ==
    /\ pc = "save"
    /\ ~is_save
    /\ dir_made' = TRUE
    /\ file' = <<WriteFile(file, all_books)>>
    /\ EndCall("returned", NoExc, <<all_books>>)
    /\ UNCHANGED << web, is_save, use_threads, max_pages, doc, out, n_books, page_size >>

\* lines 170-178 with is_save false
ReturnOnly ==
    /\ pc = "save"
    /\ ~is_save
    /\ EndCall("returned", NoExc, <<all_books>>)
    /\ UNCHANGED << web, is_save, use_threads, max_pages, file, doc, out, n_books, page_size, dir_made >>

\* lines 170-178 with is_save true
SaveReturn ==
    /\ pc = "save"
    /\ is_save
    /\ dir_made' = TRUE
    /\ file' = <<WriteFile(file, all_books)>>
    /\ EndCall("returned", NoExc, <<all_books>>)
    /\ UNCHANGED << web, is_save, use_threads, max_pages, doc, out, n_books, page_size >>

\* os.makedirs (line 172) or open (line 173) raises OSError; when open
\* raises, makedirs has made the directory
SaveFails(at) ==
    /\ pc = "save"
    /\ is_save
    /\ dir_made' = (dir_made \/ at = "open")
    /\ EndCall("raised", [type |-> "OSError", at |-> at], << >>)
    /\ UNCHANGED << web, is_save, use_threads, max_pages, file, doc, out, n_books, page_size >>

MaxPagesValues == {<< >>, <<0>>, <<1>>, <<2>>}

Init ==
    /\ n_books \in 0..MaxBooks
    /\ page_size = MaxLinks
    /\ dir_made = FALSE
    /\ web = [k \in Keys |-> UnknownResponse]
    /\ pc = "idle"
    /\ is_save = TRUE /\ use_threads = FALSE /\ max_pages = << >>
    /\ page = 1 /\ all_books = << >> /\ book_links = << >>
    /\ idx = 1 /\ futures = << >>
    /\ exc = NoExc /\ outcome = "none" /\ returned = << >>
    /\ file = << >>
    /\ requests = << >> /\ calls = << >> /\ history = << >>
    /\ doc = ErrResponse /\ out = [kind |-> "none"]

Next ==
    \/ \E s \in BOOLEAN, t \in BOOLEAN, m \in MaxPagesValues : Call(s, t, m)
    \/ FetchListing
    \/ SeqBook
    \/ Submit
    \/ \E k \in DOMAIN futures : WorkerFinish(k)
    \/ \E k \in DOMAIN futures : Consume(k)
    \/ ExitPool
    \/ ExitPoolRaise
    \/ CheckCap
    \/ NextCheck
    \/ ReturnOnly
    \/ SaveReturn
    \/ \E at \in {"makedirs", "open"} : SaveFails(at)

Spec == Init /\ [][Next]_vars

\* the same program where every enabled step is eventually taken: a
\* network call returns or times out (timeout=15, lines 48 and 96), a pool
\* thread runs, the orchestrator goes on
SpecLive == Init /\ [][Next]_vars /\ WF_vars(Next)

----------------------------------------------------------------------------
(* The thread pool on its own: one page of a concurrent crawl of a site
   whose listing page has more links than the pool has threads *)

PoolLinks == max_workers + PoolExtra

\* what the site answers for the detail page of its j-th book: the site
\* serves its first and its last book only, or its first book in a page
\* without div.product_main and the others not at all
PoolDetail(site, j) ==
    IF site = "serves" /\ j \in {1, PoolLinks} THEN OkResponse(ValidDoc(Titles[j]))
    ELSE IF site = "broken" /\ j = 1 THEN OkResponse(BrokenDoc(Titles[j]))
    ELSE ErrResponse

PoolWeb(site) ==
    [key \in Keys |->
        IF \E j \in 1..PoolLinks : key = Key(BookUrl(Titles[j]), 1)
          THEN PoolDetail(site, CHOOSE j \in 1..PoolLinks : key = Key(BookUrl(Titles[j]), 1))
          ELSE UnknownResponse]

\* scrape_books(is_save=False, use_threads=True, max_pages=1) has been
\* called and is at line 123
InitPool ==
    /\ n_books = PoolLinks
    /\ page_size = PoolLinks
    /\ dir_made = FALSE
    /\ web \in {PoolWeb(site) : site \in {"serves", "broken"}}
    /\ pc = "fetch"
    /\ is_save = FALSE /\ use_threads = TRUE /\ max_pages = <<1>>
    /\ page = 1 /\ all_books = << >> /\ book_links = << >> /\ idx = 1
    /\ futures = << >>
    /\ exc = NoExc /\ outcome = "none" /\ returned = << >>
    /\ file = << >>
    /\ requests = << >> /\ calls = << >> /\ history = << >>
    /\ doc = ErrResponse /\ out = [kind |-> "none"]

\* lines 129-153 of the first iteration
NextPool ==
    \/ FetchListing
    \/ Submit
    \/ \E k \in DOMAIN futures : WorkerFinish(k)
    \/ \E k \in DOMAIN futures : Consume(k)
    \/ ExitPool
    \/ ExitPoolRaise

\* the pool's threads run and the network calls return or time out
SpecPool == InitPool /\ [][NextPool]_vars /\ WF_vars(NextPool)

----------------------------------------------------------------------------
(* The extractor on its own: get_book_data applied to one response *)

PriceTexts == {<<" ">>, <<"£51.77">>}

ClassLists == { <<"star-rating">>, <<"star-rating", "One">>,
                <<"star-rating", "Five">>, <<"star-rating", "Zero">>,
                <<"Three", "star-rating">> }

Rows == { [th |-> <<"UPC">>, td |-> <<"a897fe39b1053632">>],
          [th |-> <<" ", "UPC", " ">>, td |-> <<" ", "90fa61229261140a", " ">>],
          [th |-> <<"Tax">>, td |-> <<"£0.00">>] }

Documents ==
    [ product_main        : {<< >>, << << >> >>, << << <<" ">> >> >>,
                             << << <<" ", "A Light in the Attic", " ">> >> >>},
      price_color         : {<< >>} \cup {<<t>> : t \in PriceTexts},
      instock             : {<< >>, << <<" ", "In", " ", "stock", " ">> >>},
      star_rating         : {<< >>} \cup {<<c>> : c \in ClassLists},
      product_description : {<< >>, << << >> >>, << << <<"text">> >> >>},
      table               : {<< >>} \cup
                            {<<rows>> : rows \in UNION {[1..k -> Rows] : k \in 0..MaxRows}} ]

InitExtract ==
    /\ n_books = 0
    /\ page_size = MaxLinks
    /\ dir_made = FALSE
    /\ web = [k \in Keys |-> UnknownResponse]
    /\ pc = "idle"
    /\ is_save = TRUE /\ use_threads = FALSE /\ max_pages = << >>
    /\ page = 1 /\ all_books = << >> /\ book_links = << >>
    /\ idx = 1 /\ futures = << >>
    /\ exc = NoExc /\ outcome = "none" /\ returned = << >>
    /\ file = << >>
    /\ requests = << >> /\ calls = << >> /\ history = << >>
    /\ doc \in {ErrResponse} \cup {OkResponse(d) : d \in Documents}
    /\ out = [kind |-> "none"]

Extract ==
    /\ out.kind = "none"
    /\ out' = get_book_data(doc)
    /\ UNCHANGED << web, pc, is_save, use_threads, max_pages, page, all_books,
                    book_links, idx, futures, exc, outcome, returned, file,
                    requests, calls, history, doc, n_books, page_size, dir_made >>

NextExtract == Extract

SpecExtract == InitExtract /\ [][NextExtract]_vars

----------------------------------------------------------------------------
(* Properties *)

Range(q) == {q[k] : k \in DOMAIN q}

SeqToBag(q) == [x \in Range(q) |-> Cardinality({k \in DOMAIN q : q[k] = x})]

\* the links of listing page q as its first request delivered them
LinksOf(q) == fetch_page(page_url(q), web[Key(page_url(q), 1)]).value

\* the link occurrences of page q whose request fails
FailedOf(q) == {k \in DOMAIN LinksOf(q) : web[Key(LinksOf(q)[k], 1)].status = "err"}

\* sum over the pages 1..p of (links - failed links)
RECURSIVE ExpectedCount(_)
ExpectedCount(p) ==
    IF p = 0 THEN 0
    ELSE ExpectedCount(p - 1) + Len(LinksOf(p)) - Cardinality(FailedOf(p))

CallsOf(p) == {c \in DOMAIN calls : calls[c].page = p}

ParseErrors == {"AttributeError", "TypeError", "IndexError"}

\* C1: a listing-page fetch that fails, be it the fetch for the links or
\* the next-page check, never ends the call with an exception
C1_ListingFetchErrorReturns ==
    ~(outcome = "raised" /\ exc.type = "RequestException"
        /\ exc.at \in {"book_links", "next_button"})

\* C2: when the extraction of a page is over, the collection holds for
\* every page processed so far one record per link whose request did not
\* fail, every link of the page got its extraction, and a failing request
\* of a book never ends the call
C2_FailedBooksSkipped ==
    /\ pc = "cap" =>
         /\ Len(all_books) = ExpectedCount(page)
         /\ Cardinality(CallsOf(page)) = Len(book_links)
    /\ ~(outcome = "raised" /\ exc.type = "RequestException"
           /\ exc.at = "get_book_data")

\* C2 witness: in thread-pool mode a page of two links is over, one of them
\* failed and the other one was appended
C2_Witness ==
    /\ pc = "cap" /\ use_threads
    /\ Len(book_links) = 2
    /\ Cardinality(FailedOf(page)) = 1
    /\ Len(all_books) = ExpectedCount(page)
    /\ Len(all_books) >= 1

\* C3: a detail page without a mandatory element never ends the call with
\* an exception
C3_ParseErrorIsLocal ==
    ~(outcome = "raised" /\ exc.at = "get_book_data" /\ exc.type \in ParseErrors)

\* a first fetch of a listing page that delivered no link
EmptyFetch(r) == r.k = 1 /\ r.status = "ok" /\ r.n = 0

C4_Inv ==
    \A i \in DOMAIN requests :
        EmptyFetch(requests[i]) =>
            /\ i = Len(requests)
            /\ pc = "save"
            /\ CallsOf(requests[i].page) = {}
            /\ Len(all_books) = ExpectedCount(requests[i].page - 1)

C4_Step ==
    (pc = "save" /\ requests # << >> /\ EmptyFetch(requests[Len(requests)])) =>
        /\ pc' = "idle"
        /\ outcome' = "returned" => returned' = <<all_books>>

\* C4: after a listing page without links the crawl is at its end: no
\* extraction for that page, no later listing request, the collection as
\* the earlier pages left it, and that collection is what a return delivers
C4_EmptyPageTerminates == [](C4_Inv) /\ [][C4_Step]_vars

\* C4 witness: page 2 came without links after page 1 gave a record
C4_Witness ==
    /\ pc = "save"
    /\ Len(requests) = 3
    /\ EmptyFetch(requests[3]) /\ requests[3].page = 2
    /\ Len(all_books) >= 1

\* C5: with a cap N >= 1 no listing page above N is requested and no book
\* of such a page is extracted; with cap 1 the crawl ends after exactly one
\* listing request
C5_PageCap ==
    (pc # "idle" /\ max_pages # << >> /\ max_pages[1] >= 1) =>
        /\ page <= max_pages[1]
        /\ \A i \in DOMAIN requests : requests[i].page <= max_pages[1]
        /\ \A c \in DOMAIN calls : calls[c].page <= max_pages[1]
        /\ max_pages[1] = 1 => Len(requests) <= 1
        /\ (max_pages[1] = 1 /\ pc = "save") => Len(requests) = 1

\* C5 witness: cap 1, page 1 carries a next link and gave a record, and
\* the crawl is at its end after one listing request
C5_Witness ==
    /\ pc = "save" /\ max_pages = <<1>>
    /\ Len(requests) = 1 /\ requests[1].next
    /\ all_books # << >>

\* C6: a sequential and a thread-pool call on the same site with the same
\* cap return the same multiset of records, and unless the save step fails
\* one returns exactly when the other does
C6_ModesAgree ==
    \A i, j \in DOMAIN history :
        (history[i].use_threads # history[j].use_threads
            /\ history[i].max_pages = history[j].max_pages) =>
            /\ (history[i].outcome = "returned" /\ history[j].outcome = "returned") =>
                  SeqToBag(history[i].value[1]) = SeqToBag(history[j].value[1])
            /\ (history[i].exc # "OSError" /\ history[j].exc # "OSError") =>
                  history[i].outcome = history[j].outcome

\* C6 witness: both modes returned two records, in different orders
C6_Witness ==
    /\ Len(history) = 2
    /\ history[1].outcome = "returned" /\ history[2].outcome = "returned"
    /\ history[1].use_threads # history[2].use_threads
    /\ Len(history[1].value[1]) = 2
    /\ history[1].value # history[2].value

SavedRuns == {i \in DOMAIN history : history[i].is_save /\ history[i].outcome = "returned"}

LastSaved == CHOOSE i \in SavedRuns : \A j \in SavedRuns : j <= i

\* C7: the destination holds exactly the lines of the records the most
\* recent saving call returned, in their order; before any it is absent
C7_FileIsLastResult ==
    IF SavedRuns = {} THEN file = << >>
    ELSE file = <<Lines(history[LastSaved].value[1])>>

\* C7 witness: two saving calls returned, the first one a non-empty
\* collection, and the file holds the lines of the second
C7_Witness ==
    /\ Len(history) = 2 /\ SavedRuns = {1, 2}
    /\ history[1].value[1] # << >>
    /\ history[2].value[1] # << >>
    /\ file = <<Lines(history[2].value[1])>>

\* C8: when the save step fails the caller still obtains the records
C8_SaveFailureKeepsResult ==
    (outcome = "raised" /\ exc.type = "OSError") => returned # << >>

NonBlank(t) == \E k \in DOMAIN t : t[k] # " "

\* a detail page as the site builds it
ValidDetail(d) ==
    /\ d.product_main # << >> /\ d.product_main[1] # << >>
    /\ NonBlank(d.product_main[1][1])
    /\ d.price_color # << >> /\ NonBlank(d.price_color[1])
    /\ d.instock # << >> /\ NonBlank(d.instock[1])
    /\ d.star_rating # << >>
    /\ \E r \in Ratings : d.star_rating[1] = <<"star-rating", r>>
    /\ d.product_description # << >> => d.product_description[1] # << >>
    /\ d.table # << >>

\* C9: for a valid detail page get_book_data returns a record whose title,
\* price, availability and rating are not empty and whose rating is one
\* of the five values
C9_ValidRecord ==
    (out.kind # "none" /\ doc.status = "ok" /\ ValidDetail(doc.body)) =>
        /\ out.kind = "ok"
        /\ out.value.title # << >>
        /\ out.value.price # << >>
        /\ out.value.availability # << >>
        /\ out.value.rating \in Ratings

\* C9 witness: a valid page was extracted
C9_Witness ==
    /\ doc.status = "ok" /\ ValidDetail(doc.body)
    /\ out.kind = "ok"
    /\ out.value.rating = "Five"

\* C10: the listing page with the next number is requested only when the
\* page fetched just before carried a next link
C10_NoNextNoRequest ==
    \A i \in DOMAIN requests :
        (i > 1 /\ requests[i].page = requests[i - 1].page + 1) => requests[i - 1].next


\* every call that was started comes to an end, by a return or by an
\* exception
CallEnds ==
    \A n \in 0..(MaxRuns - 1) :
        (Len(history) = n /\ pc = "fetch") ~> (Len(history) > n)

\* C11: on a finite catalog, every network call returning or timing out,
\* a call of scrape_books in either mode and with any cap eventually leaves
\* the loop and returns its collection, the disk allowing
C11_RunReturns ==
    \A n \in 0..(MaxRuns - 1) :
        (Len(history) = n /\ pc = "fetch")
            ~> (/\ Len(history) > n
                /\ \/ history[n + 1].outcome = "returned"
                   \/ history[n + 1].exc = "OSError")

\* C12: in concurrent mode the orchestrator is outside the extraction of a
\* page (about to check the cap, to request a listing page, or to save)
\* only when every extraction task of the page has completed, and the
\* tasks in the pool are those of the links of the current page
C12_PageBarrier ==
    use_threads =>
        /\ pc \in {"cap", "next", "fetch", "save"}
             => \A k \in DOMAIN futures : futures[k].state = "consumed"
        /\ pc \in {"collect", "shutdown"}
             => /\ Len(futures) = Len(book_links)
                /\ \A k \in DOMAIN futures : futures[k].link = book_links[k]

\* the second listing page is about to be requested after a page whose
\* extractions ran in the pool
C12_Witness ==
    /\ use_threads
    /\ pc = "fetch"
    /\ page = 2
    /\ Len(futures) >= 2

\* C13: in concurrent mode at most 8 extractions are executing at any
\* moment, however many links the page has, and every link that waits in
\* the queue is eventually executed
C13_PoolBound ==
    /\ [](Cardinality(Running) <= 8)
    /\ (Pending # {})
          ~> (/\ Len(futures) > 8
              /\ \A k \in DOMAIN futures : futures[k].state \in {"finished", "consumed"})

\* the last link of a page with more links than threads has waited in the
\* queue and has been executed, while 8 extractions were running
C13_Witness ==
    /\ use_threads
    /\ Len(futures) > 8
    /\ futures[Len(futures)].state = "finished"
    /\ \E i \in DOMAIN calls :
         /\ calls[i].i = Len(futures)
         /\ i > 8

\* the futures whose record the orchestrator has taken
ConsumedOk ==
    {k \in DOMAIN futures : futures[k].state = "consumed" /\ futures[k].result.kind = "ok"}

\* the last n records of the collection
LastRecords(n) == SubSeq(all_books, Len(all_books) - n + 1, Len(all_books))

\* the collection holds, after the records of the earlier pages, one
\* record per extraction of the current page that succeeded and was taken
C14_Inv ==
    (use_threads /\ pc \in {"collect", "shutdown", "cap"}) =>
        /\ Len(all_books) >= Cardinality(ConsumedOk)
        /\ \A k \in ConsumedOk :
             Cardinality({i \in DOMAIN LastRecords(Cardinality(ConsumedOk)) :
                            LastRecords(Cardinality(ConsumedOk))[i] = futures[k].result.value})
               = Cardinality({j \in ConsumedOk :
                                futures[j].result.value = futures[k].result.value})
        /\ pc = "cap" =>
             ConsumedOk = {k \in DOMAIN futures : futures[k].result.kind = "ok"}

\* within a call the collection changes only by one record put at its end,
\* in the step where the orchestrator takes the result of a future
C14_Step ==
    (use_threads /\ pc # "idle" /\ pc' # "idle" /\ all_books' # all_books) =>
        /\ Len(all_books') = Len(all_books) + 1
        /\ SubSeq(all_books', 1, Len(all_books)) = all_books
        /\ \E k \in DOMAIN futures :
             /\ futures[k].state = "finished" /\ futures'[k].state = "consumed"
             /\ all_books'[Len(all_books')] = futures[k].result.value

\* C14: in concurrent mode only the orchestrator appends: after a page the
\* collection holds exactly one record per successful extraction of the
\* page, none lost or duplicated, and the records of earlier pages are
\* unchanged
C14_AppendsByOrchestrator == [](C14_Inv) /\ [][C14_Step]_vars

\* the second page of a concurrent crawl is done with both its records
\* behind a record of the first page
C14_Witness ==
    /\ use_threads
    /\ pc = "cap"
    /\ page = 2
    /\ Cardinality(ConsumedOk) = 2
    /\ Len(all_books) >= 3

\* the records of the first n links of listing page q whose extraction
\* succeeds, in the order of the links
RECURSIVE PageRecords(_, _)
PageRecords(q, n) ==
    IF n = 0 THEN << >>
    ELSE LET r == get_book_data(web[Key(LinksOf(q)[n], 1)])
         IN  PageRecords(q, n - 1) \o (IF r.kind = "ok" THEN <<r.value>> ELSE << >>)

\* the records of the books processed on the pages 1..p, page after page
RECURSIVE Discovered(_)
Discovered(p) ==
    IF p = 0 THEN << >>
    ELSE Discovered(p - 1) \o PageRecords(p, Cardinality(CallsOf(p)))

C15_Inv == (~use_threads /\ pc # "idle") => all_books = Discovered(page)

C15_Step ==
    (~use_threads /\ pc = "save" /\ outcome' = "returned")
        => returned' = <<Discovered(page)>>

\* C15: in sequential mode the collection, and so the returned value, is in
\* discovery order: pages ascending, within a page the order of the links,
\* the books whose extraction failed left out
C15_DiscoveryOrder == [](C15_Inv) /\ [][C15_Step]_vars

\* a sequential crawl is over with records of two pages, a book of the
\* first page having failed
C15_Witness ==
    /\ ~use_threads
    /\ pc = "save"
    /\ page >= 2
    /\ FailedOf(1) # {}
    /\ PageRecords(1, Len(LinksOf(1))) # << >>
    /\ Len(all_books) > Len(PageRecords(1, Len(LinksOf(1))))

\* C16: every listing-page address is requested at most once in a call,
\* and every link occurrence of a fetched page gets one invocation of the
\* extractor, never a second one
C16_SingleAttempt ==
    /\ \A i, j \in DOMAIN requests :
         requests[i].url = requests[j].url => i = j
    /\ \A i, j \in DOMAIN calls :
         (calls[i].page = calls[j].page /\ calls[i].i = calls[j].i) => i = j
    /\ pc \in {"cap", "next"} => Cardinality(CallsOf(page)) = Len(book_links)

\* the listing pages are requested in the order 1, 2, 3, ..., page 1 at
\* the root index address and page n >= 2 at catalogue/page-n.html
C17_Inv ==
    /\ pc # "idle" => page >= 1
    /\ requests # << >> => requests[1].page = 1
    /\ \A i \in DOMAIN requests :
         /\ i > 1 => requests[i].page \in {requests[i - 1].page, requests[i - 1].page + 1}
         /\ requests[i].page = page \/ requests[i].page < page
         /\ IF requests[i].page = 1
              THEN requests[i].url = [dir |-> << >>, file |-> "index.html", n |-> 0]
              ELSE requests[i].url = [dir |-> <<"catalogue">>, file |-> "page-n.html",
                                      n |-> requests[i].page]

\* the counter starts at 1 and changes only by one, from the next-page
\* check to the next listing fetch
C17_Step ==
    /\ (pc = "idle" /\ pc' # "idle") => page' = 1
    /\ (pc # "idle" /\ pc' # "idle" /\ page' # page)
         => (page' = page + 1 /\ pc = "next" /\ pc' = "fetch")

\* C17: the page counter starts at 1 and only grows by one on advancing,
\* so the listing pages are requested as 1, 2, 3, ... with none skipped and
\* none revisited under a lower number, page 1 at the root index address
\* and every later page at its numbered pagination address
C17_ConsecutivePages == [](C17_Inv) /\ [][C17_Step]_vars

\* the second listing page has been requested
C17_Witness ==
    /\ pc # "idle"
    /\ page = 2
    /\ requests # << >>
    /\ requests[Len(requests)].page = 2
    /\ requests[Len(requests)].url.n = 2

\* the elements of the four mandatory fields are in the page
MandatoryPresent(d) ==
    /\ d.product_main # << >> /\ d.product_main[1] # << >>
    /\ d.price_color # << >>
    /\ d.instock # << >>
    /\ d.star_rating # << >> /\ Len(d.star_rating[1]) >= 2

\* the labels of the rows of the attribute table, none when there is no
\* table
LabelsOf(d) ==
    IF d.table = << >> THEN {}
    ELSE {get_text(d.table[1][k].th) : k \in DOMAIN d.table[1]}

TableFields ==
    { [key |-> "upc",                label |-> <<"UPC">>],
      [key |-> "product_type",       label |-> <<"Product", " ", "Type">>],
      [key |-> "price_excl_tax",     label |-> <<"Price", " ", "(excl.", " ", "tax)">>],
      [key |-> "price_incl_tax",     label |-> <<"Price", " ", "(incl.", " ", "tax)">>],
      [key |-> "tax",                label |-> <<"Tax">>],
      [key |-> "availability_count", label |-> <<"Availability">>],
      [key |-> "number_of_reviews",  label |-> <<"Number", " ", "of", " ", "reviews">>] }

\* C18: for a fetched detail page with its mandatory elements get_book_data
\* does not fail over absent optional data: it returns a record of exactly
\* twelve keys, where a table field whose label is missing (also when there
\* are no table entries at all) is the empty string and a missing
\* description marker gives the empty description
C18_OptionalDegrades ==
    (out.kind # "none" /\ doc.status = "ok" /\ MandatoryPresent(doc.body)) =>
        /\ out.kind = "ok"
        /\ DOMAIN out.value = {"title", "price", "availability", "rating", "description"}
                                \cup {f.key : f \in TableFields}
        /\ doc.body.product_description = << >> => out.value.description = << >>
        /\ \A f \in TableFields :
             f.label \notin LabelsOf(doc.body) => out.value[f.key] = << >>

\* C19: the destination file and its directory change only in the step
\* that ends a call after its loop, with is_save true: at most once per
\* call, never with is_save false, never in a call that an exception ends
\* during the crawl
C19_WriteOnceAtEnd ==
    [][ /\ (file' # file \/ dir_made' # dir_made)
             => (pc = "save" /\ is_save /\ pc' = "idle")
        /\ (outcome' = "raised" /\ exc'.type # "OSError")
             => (file' = file /\ dir_made' = dir_made) ]_vars

\* a call with is_save true was ended by an exception during the crawl and
\* the destination is as it was before the call
C19_Witness ==
    /\ pc = "idle"
    /\ is_save
    /\ outcome = "raised"
    /\ exc.at \in {"get_book_data", "next_button"}
    /\ file = << >>
    /\ ~dir_made

\* with the cap 0 the loop is left only after a listing request that gave
\* no links or failed, as without a cap
C20_Inv ==
    (max_pages = <<0>> /\ pc = "save") =>
        /\ requests # << >>
        /\ LET last == requests[Len(requests)]
           IN  last.status = "err" \/ last.n = 0

\* the cap check of a call with the cap 0 goes on to the next-page check
C20_Step == (max_pages = <<0>> /\ pc = "cap") => pc' = "next"

\* two calls on the same site, one with the cap 0 and one with None, end
\* alike: both return the same records or both raise the same exception
C20_SameAsNone ==
    \A i, j \in DOMAIN history :
        (/\ history[i].max_pages = <<0>> /\ history[j].max_pages = << >>
         /\ history[i].exc # "OSError" /\ history[j].exc # "OSError")
          => /\ history[i].outcome = history[j].outcome
             /\ history[i].exc = history[j].exc
             /\ history[i].outcome = "returned"
                  => SeqToBag(history[i].value[1]) = SeqToBag(history[j].value[1])

\* C20: a page cap of 0 is treated like None: the crawl fetches page 1,
\* extracts its books and goes through the catalog until an empty page or
\* a failed fetch; the cap never ends it
C20_ZeroCapIsNoCap == [](C20_Inv /\ C20_SameAsNone) /\ [][C20_Step]_vars

\* a call with the cap 0 and a call with None have both crawled a catalog
\* of more than one page to its end
C20_Witness ==
    /\ Len(history) >= 2
    /\ history[1].max_pages = << >> /\ history[2].max_pages = <<0>>
    /\ history[1].outcome = "returned" /\ history[2].outcome = "returned"
    /\ n_books > page_size
    /\ Len(history[2].value[1]) = n_books
====
